---- MODULE Spec2Model ----
(***************************************************************************)
(* Cafe back-office (src/cafe_app.py): the sales-to-inventory-to-profit     *)
(* engine.  The store's tables are sets of rows; a handler that makes       *)
(* several store calls is a process whose position is part of the state,    *)
(* each store call being one atomic step.                                   *)
(***************************************************************************)
EXTENDS Integers, Sequences, FiniteSets, TLC

VARIABLES
    stock_items,       \* table stock_items: rows [id, tracking_type, current_quantity, cost_per_unit]
    menu_items,        \* table menu_items: rows [id, sale_price]
    menu_item_recipe,  \* table menu_item_recipe: rows [id, menu_item_id, stock_item_id, quantity_used]
    workers,           \* table workers: rows [id, role, salary]
    orders,            \* table orders: rows [id, server_id, timestamp]
    order_items,       \* table order_items: rows [id, order_id, menu_item_id, quantity, price_at_sale, cost_at_sale]
    monthly_expenses,  \* table monthly_expenses: rows [id, month, amount]
    nextId,            \* the store's id generators, one per table
    cache,             \* st.cache_data of calculate_menu_item_cost: menu_item_id -> <<value>>, or <<>> for no entry
    sess,              \* per browser session: the position of the handler it is running and its locals
    out,               \* what the last finished handler or helper call returned or displayed
    hist               \* history (not program state): what the handlers have done so far

vars == <<stock_items, menu_items, menu_item_recipe, workers, orders, order_items,
          monthly_expenses, nextId, cache, sess, out, hist>>

storeVars == <<stock_items, menu_items, menu_item_recipe, workers, orders, order_items,
               monthly_expenses, nextId>>

\* ---------------------------------------------------------------- calendar
\* datetime.date as <<year, month, day>>; datetime.datetime as
\* <<year, month, day, hour, minute, second, microsecond>>.

IsLeap(y) == (y % 4 = 0) /\ ((y % 100 # 0) \/ (y % 400 = 0))

DaysInMonth(y, m) ==
    IF m = 2 THEN (IF IsLeap(y) THEN 29 ELSE 28)
    ELSE IF m \in {4, 6, 9, 11} THEN 30 ELSE 31

\* date + timedelta(days=1)
NextDay(d) ==
    IF d[3] < DaysInMonth(d[1], d[2]) THEN <<d[1], d[2], d[3] + 1>>
    ELSE IF d[2] < 12 THEN <<d[1], d[2] + 1, 1>>
    ELSE <<d[1] + 1, 1, 1>>

\* date - timedelta(days=1)
PrevDay(d) ==
    IF d[3] > 1 THEN <<d[1], d[2], d[3] - 1>>
    ELSE IF d[2] > 1 THEN <<d[1], d[2] - 1, DaysInMonth(d[1], d[2] - 1)>>
    ELSE <<d[1] - 1, 12, 31>>

RECURSIVE PlusDays(_, _)
PlusDays(d, n) == IF n = 0 THEN d ELSE PlusDays(NextDay(d), n - 1)

\* date.replace(day=k)
ReplaceDay(d, k) == <<d[1], d[2], k>>

TimeMin == <<0, 0, 0, 0>>
TimeMax == <<23, 59, 59, 999999>>
Noon == <<12, 0, 0, 0>>

\* datetime.combine(d, t)
Combine(d, t) == d \o t

\* the store's comparison of two timestamps (column >= / <= value)
RECURSIVE LexLeq(_, _)
LexLeq(a, b) ==
    IF a = <<>> THEN TRUE
    ELSE IF Head(a) < Head(b) THEN TRUE
    ELSE IF Head(a) > Head(b) THEN FALSE
    ELSE LexLeq(Tail(a), Tail(b))

\* the days Timedelta(days=4) adds in get_month_range
DaysPastThe28th == 4

get_month_range_3days(selected_date) ==
    LET start_of_month == ReplaceDay(selected_date, 1)
        next_month_start == ReplaceDay(PlusDays(ReplaceDay(start_of_month, 28), 3), 1)
        end_of_month == PrevDay(next_month_start)
    IN  <<Combine(start_of_month, TimeMin), Combine(end_of_month, TimeMax), start_of_month>>

get_month_range(selected_date) ==
    LET start_of_month == ReplaceDay(selected_date, 1)
        next_month_start ==
            ReplaceDay(PlusDays(ReplaceDay(start_of_month, 28), DaysPastThe28th), 1)
        end_of_month == PrevDay(next_month_start)
    IN  <<Combine(start_of_month, TimeMin), Combine(end_of_month, TimeMax), start_of_month>>

\* ---------------------------------------------------------------- bounds

MaxBatches == 1      \* batch submissions of one session in one run
MaxFailures == 1     \* store calls that fail in one run
MaxConcurrent == 2   \* batch submissions in one run of the concurrent sessions
MaxOps == 2          \* requests to the management pages in one run
MaxLinks == 4        \* rows the menu_item_recipe table ever gets
MaxExpenses == 2     \* rows the monthly_expenses table ever gets

Sessions == {"s1", "s2"}
Quantities == {0, 3}
TrackingTypes == {"UNIT", "MULTI-USE", "MANUAL"}
SalesDates == {<<2024, 2, 29>>, <<2024, 3, 1>>}

StockIds == {1, 2, 3}
MenuIds == {1, 2, 3}
WorkerIds == {1, 2, 3}

NoEntry == <<>>
NoRow == [id |-> 0]

\* ---------------------------------------------------------------- helpers

RECURSIVE SumFn(_, _)
\* the sum of f[x] over the finite set S
SumFn(f, S) ==
    IF S = {} THEN 0
    ELSE LET x == CHOOSE x \in S : TRUE IN f[x] + SumFn(f, S \ {x})

RECURSIVE SortById(_)
\* the rows of a table as the store returns them (by id)
SortById(S) ==
    IF S = {} THEN <<>>
    ELSE LET r == CHOOSE r \in S : \A q \in S : r.id <= q.id
         IN  <<r>> \o SortById(S \ {r})

Ids(table) == {r.id : r \in table}
Row(table, id) == CHOOSE r \in table : r.id = id
HasRow(table, id) == \E r \in table : r.id = id

\* ---------------------------------------------------------------- sessions

IdleSess ==
    [pc |-> "idle", server_id |-> 0, sales |-> <<>>, sales_date |-> <<0, 0, 0>>,
     order_id |-> 0, total_revenue |-> 0, i |-> 0, cost |-> 0, recipe |-> <<>>,
     j |-> 0, ret |-> 0, failed |-> FALSE, made_orders |-> {}, made_items |-> {},
     target |-> 0, new_quantity |-> 0]

\* the sales_dict values a caller can pass: at most one entry per menu item,
\* iterated in the order the form builds them (menu order)
SalesDicts(entries) ==
    {d \in UNION {[1..n -> entries] : n \in 0..Cardinality({e.item_id : e \in entries})} :
        \A a, b \in DOMAIN d : a < b => d[a].item_id < d[b].item_id}

\* the entries the form offers: each menu item at the price the page loaded
FormEntries ==
    {[item_id |-> m.id, quantity |-> q, sale_price |-> m.sale_price] :
        m \in menu_items, q \in Quantities}

\* ---------------------------------------------------------------- Cost Calculator

\* select('quantity_used, stock_items(cost_per_unit)').eq('menu_item_id', m):
\* each link with its stock item embedded, None (NoRow) when the row is missing
RecipeWithCost(m) ==
    LET links == SortById({l \in menu_item_recipe : l.menu_item_id = m})
    IN  [k \in DOMAIN links |->
            [quantity_used |-> links[k].quantity_used,
             stock_items |-> IF HasRow(stock_items, links[k].stock_item_id)
                             THEN Row(stock_items, links[k].stock_item_id)
                             ELSE NoRow]]

RECURSIVE TotalCost(_)
\* the loop of calculate_menu_item_cost over recipe_response.data
TotalCost(data) ==
    IF data = <<>> THEN 0
    ELSE LET ingredient == Head(data)
         IN  (IF ingredient.stock_items # NoRow
              THEN ingredient.quantity_used * ingredient.stock_items.cost_per_unit
              ELSE 0) + TotalCost(Tail(data))

\* a slip: the unit cost of the ingredient without its quantity_used
compute_cost_no_quantity(menu_item_id) ==
    LET data == RecipeWithCost(menu_item_id)
    IN  IF data = <<>> THEN 0
        ELSE SumFn([k \in DOMAIN data |->
                      IF data[k].stock_items # NoRow
                      THEN data[k].stock_items.cost_per_unit ELSE 0], DOMAIN data)

\* the body of calculate_menu_item_cost when the store answers
compute_cost(menu_item_id) ==
    LET data == RecipeWithCost(menu_item_id)
    IN  IF data = <<>> THEN 0 ELSE TotalCost(data)

\* ---------------------------------------------------------------- Stock Decrementer

\* the store function behind rpc('decrement_stock', {item_id, amount_to_reduce}):
\* one atomic update, current_quantity := current_quantity - amount_to_reduce
decrement_stock(item_id, amount_to_reduce) ==
    {IF r.id = item_id
     THEN [r EXCEPT !.current_quantity = @ - amount_to_reduce]
     ELSE r : r \in stock_items}

\* a slip: the amount of one unit, the quantity sold forgotten
AmountPerUnit(ingredient, quantity) == ingredient.quantity_used

\* total_amount_to_reduce
AmountToReduce(ingredient, quantity) == ingredient.quantity_used * quantity

\* ---------------------------------------------------------------- Sales Batch Processor

\* a slip: the quantity-0 entries are not skipped
NextIdxNoSkip(sales, k) == k

RECURSIVE NextIdx(_, _)
\* the loop head of process_daily_sales: the next entry whose quantity is not 0
NextIdx(sales, k) ==
    IF k > Len(sales) THEN k
    ELSE IF sales[k].quantity = 0 THEN NextIdx(sales, k + 1)
    ELSE k

\* the session after entry k-1 is finished: the next entry, or the return
Continue(r, k) ==
    LET n == NextIdx(r.sales, k)
    IN  IF n > Len(r.sales)
        THEN [r EXCEPT !.i = n, !.pc = "done", !.ret = r.total_revenue,
                       !.recipe = <<>>, !.j = 0]
        ELSE [r EXCEPT !.i = n, !.pc = "cost", !.recipe = <<>>, !.j = 0]

\* process_daily_sales(server_id, sales_dict, sales_date) is called
BatchStart(s, server_id, sales_dict, sales_date) ==
    /\ sess[s].pc = "idle"
    /\ sess' = [sess EXCEPT ![s] =
                   [IdleSess EXCEPT !.pc = "insert_order", !.server_id = server_id,
                                    !.sales = sales_dict, !.sales_date = sales_date]]
    /\ hist' = [hist EXCEPT !.batches[s] = @ + 1,
                            !.sold = [m \in DOMAIN @ |->
                                @[m] + SumFn([k \in DOMAIN sales_dict |->
                                              IF sales_dict[k].item_id = m
                                              THEN sales_dict[k].quantity ELSE 0],
                                             DOMAIN sales_dict)]]
    /\ UNCHANGED <<storeVars, cache, out>>

\* 1. db.table('orders').insert({server_id, timestamp}).execute()
OrderInsert(s) ==
    LET r == sess[s]
        row == [id |-> nextId.orders, server_id |-> r.server_id,
                timestamp |-> Combine(r.sales_date, Noon)]
    IN  /\ r.pc = "insert_order"
        /\ orders' = orders \cup {row}
        /\ nextId' = [nextId EXCEPT !.orders = @ + 1]
        /\ sess' = [sess EXCEPT ![s] =
                       Continue([r EXCEPT !.order_id = row.id, !.total_revenue = 0,
                                          !.made_orders = @ \cup {row}], 1)]
        /\ UNCHANGED <<stock_items, menu_items, menu_item_recipe, workers, order_items,
                       monthly_expenses, cache, out, hist>>

\* cost_at_sale_per_item = calculate_menu_item_cost(item_id): the cached value
\* if st.cache_data holds one, else the value computed from the store, which
\* is then cached
CostLookup(s) ==
    LET r == sess[s]
        m == r.sales[r.i].item_id
        hit == cache[m] # NoEntry
        value == IF hit THEN cache[m][1] ELSE compute_cost(m)
    IN  /\ r.pc = "cost"
        /\ sess' = [sess EXCEPT ![s] = [r EXCEPT !.cost = value, !.pc = "insert_item"]]
        /\ cache' = [cache EXCEPT ![m] = <<value>>]
        /\ out' = [op |-> "cost", menu_item_id |-> m, value |-> value, cached |-> hit,
                   failed |-> FALSE,
                   links |-> {l \in menu_item_recipe : l.menu_item_id = m},
                   stock |-> stock_items]
        /\ UNCHANGED <<storeVars, hist>>

\* the store query of calculate_menu_item_cost raises: the error is shown, 0
\* is returned, and st.cache_data caches the 0 like any return value
CostLookupFails(s) ==
    LET r == sess[s]
        m == r.sales[r.i].item_id
    IN  /\ r.pc = "cost"
        /\ cache[m] = NoEntry
        /\ hist.failures < MaxFailures
        /\ sess' = [sess EXCEPT ![s] =
                       [r EXCEPT !.cost = 0, !.pc = "insert_item", !.failed = TRUE]]
        /\ cache' = [cache EXCEPT ![m] = <<0>>]
        /\ out' = [op |-> "cost", menu_item_id |-> m, value |-> 0, cached |-> FALSE,
                   failed |-> TRUE,
                   links |-> {l \in menu_item_recipe : l.menu_item_id = m},
                   stock |-> stock_items]
        /\ hist' = [hist EXCEPT !.failures = @ + 1]
        /\ UNCHANGED storeVars

\* a slip: the price of the order item is read from the menu at insert time
ItemInsertStoredPrice(s) ==
    LET r == sess[s]
        e == r.sales[r.i]
        row == [id |-> nextId.order_items, order_id |-> r.order_id,
                menu_item_id |-> e.item_id, quantity |-> e.quantity,
                price_at_sale |-> Row(menu_items, e.item_id).sale_price,
                cost_at_sale |-> r.cost]
    IN  /\ r.pc = "insert_item"
        /\ order_items' = order_items \cup {row}
        /\ nextId' = [nextId EXCEPT !.order_items = @ + 1]
        /\ sess' = [sess EXCEPT ![s] =
                       [r EXCEPT !.total_revenue = @ + e.sale_price * e.quantity,
                                 !.made_items = @ \cup {row},
                                 !.pc = "fetch_recipe"]]
        /\ hist' = [hist EXCEPT !.born = @ \cup {row}]
        /\ UNCHANGED <<stock_items, menu_items, menu_item_recipe, workers, orders,
                       monthly_expenses, cache, out>>

\* 2. db.table('order_items').insert({...}).execute(); total_revenue += ...
ItemInsert(s) ==
    LET r == sess[s]
        e == r.sales[r.i]
        row == [id |-> nextId.order_items, order_id |-> r.order_id,
                menu_item_id |-> e.item_id, quantity |-> e.quantity,
                price_at_sale |-> e.sale_price, cost_at_sale |-> r.cost]
    IN  /\ r.pc = "insert_item"
        /\ order_items' = order_items \cup {row}
        /\ nextId' = [nextId EXCEPT !.order_items = @ + 1]
        /\ sess' = [sess EXCEPT ![s] =
                       [r EXCEPT !.total_revenue = @ + e.sale_price * e.quantity,
                                 !.made_items = @ \cup {row},
                                 !.pc = "fetch_recipe"]]
        /\ hist' = [hist EXCEPT !.born = @ \cup {row}]
        /\ UNCHANGED <<stock_items, menu_items, menu_item_recipe, workers, orders,
                       monthly_expenses, cache, out>>

\* 3. db.table('menu_item_recipe').select('stock_item_id, quantity_used')
\*      .eq('menu_item_id', item_id).execute()
RecipeFetch(s) ==
    LET r == sess[s]
        links == SortById({l \in menu_item_recipe : l.menu_item_id = r.sales[r.i].item_id})
        data == [k \in DOMAIN links |->
                    [stock_item_id |-> links[k].stock_item_id,
                     quantity_used |-> links[k].quantity_used]]
    IN  /\ r.pc = "fetch_recipe"
        /\ sess' = [sess EXCEPT ![s] =
                       IF data = <<>> THEN Continue(r, r.i + 1)
                       ELSE [r EXCEPT !.recipe = data, !.j = 1, !.pc = "decrement"]]
        /\ UNCHANGED <<storeVars, cache, out, hist>>

\* a slip: the engine writes back a quantity it read earlier, less the amount
DecrementReadThenWrite(s) ==
    LET r == sess[s]
        ingredient == r.recipe[r.j]
        amount == AmountToReduce(ingredient, r.sales[r.i].quantity)
    IN  /\ r.pc = "decrement"
        /\ stock_items' =
               {IF x.id = ingredient.stock_item_id
                THEN [x EXCEPT !.current_quantity = hist.qty0[x.id] - amount]
                ELSE x : x \in stock_items}
        /\ sess' = [sess EXCEPT ![s] =
                       IF r.j = Len(r.recipe) THEN Continue(r, r.i + 1)
                       ELSE [r EXCEPT !.j = @ + 1]]
        /\ hist' = [hist EXCEPT !.requested[ingredient.stock_item_id] = @ + amount]
        /\ UNCHANGED <<menu_items, menu_item_recipe, workers, orders, order_items,
                       monthly_expenses, nextId, cache, out>>

\* db.rpc('decrement_stock', {item_id, amount_to_reduce}).execute(), once per
\* ingredient of the recipe
Decrement(s) ==
    LET r == sess[s]
        ingredient == r.recipe[r.j]
        amount == AmountToReduce(ingredient, r.sales[r.i].quantity)
    IN  /\ r.pc = "decrement"
        /\ stock_items' = decrement_stock(ingredient.stock_item_id, amount)
        /\ sess' = [sess EXCEPT ![s] =
                       IF r.j = Len(r.recipe) THEN Continue(r, r.i + 1)
                       ELSE [r EXCEPT !.j = @ + 1]]
        /\ hist' = [hist EXCEPT !.requested[ingredient.stock_item_id] = @ + amount]
        /\ UNCHANGED <<menu_items, menu_item_recipe, workers, orders, order_items,
                       monthly_expenses, nextId, cache, out>>

\* a slip: the failed batch undoes what its completed steps wrote
StoreCallFailsRollback(s) ==
    LET r == sess[s]
    IN  /\ r.pc \in {"insert_order", "insert_item", "fetch_recipe", "decrement"}
        /\ hist.failures < MaxFailures
        /\ orders' = orders \ r.made_orders
        /\ order_items' = order_items \ r.made_items
        /\ stock_items' = {[x EXCEPT !.current_quantity = hist.qty0[x.id]] : x \in stock_items}
        /\ sess' = [sess EXCEPT ![s] = [r EXCEPT !.pc = "done", !.ret = 0, !.failed = TRUE]]
        /\ hist' = [hist EXCEPT !.failures = @ + 1]
        /\ UNCHANGED <<menu_items, menu_item_recipe, workers, monthly_expenses, nextId,
                       cache, out>>

\* a store call of process_daily_sales raises (or the order insert returns no
\* row): the error is shown and 0 is returned
StoreCallFails(s) ==
    LET r == sess[s]
    IN  /\ r.pc \in {"insert_order", "insert_item", "fetch_recipe", "decrement"}
        /\ hist.failures < MaxFailures
        /\ sess' = [sess EXCEPT ![s] = [r EXCEPT !.pc = "done", !.ret = 0, !.failed = TRUE]]
        /\ hist' = [hist EXCEPT !.failures = @ + 1]
        /\ UNCHANGED <<storeVars, cache, out>>

\* process_daily_sales has returned; the session is free for its next request
BatchReturn(s) ==
    LET r == sess[s]
    IN  /\ r.pc = "done"
        /\ out' = [op |-> "batch", ret |-> r.ret, failed |-> r.failed]
        /\ sess' = [sess EXCEPT ![s] = IdleSess]
        /\ UNCHANGED <<storeVars, cache, hist>>

\* the sales_dict the form builds: one entry per menu item, in the order the
\* page read them, for the items whose number input is above 0, at the price
\* the page read
FormDict(quantity) ==
    LET menu == SortById(menu_items)
        picked == SelectSeq(menu, LAMBDA item : quantity[item.id] > 0)
    IN  [k \in DOMAIN picked |->
            [item_id |-> picked[k].id, quantity |-> quantity[picked[k].id],
             sale_price |-> picked[k].sale_price]]

\* a slip: the submit handler without its test of sales_dict
SubmitDailySalesAnyDict(s, selected_server, quantity, selected_date) ==
    LET servers == {w \in workers : w.role = "server"}
    IN  /\ sess[s].pc = "idle"
        /\ IF servers = {}
           THEN /\ out' = [op |-> "submit", refused |-> TRUE, message |-> "No servers found"]
                /\ UNCHANGED <<storeVars, cache, sess, hist>>
           ELSE IF menu_items = {}
           THEN /\ out' = [op |-> "submit", refused |-> TRUE,
                           message |-> "No menu items found"]
                /\ UNCHANGED <<storeVars, cache, sess, hist>>
           ELSE /\ selected_server \in Ids(servers)
                /\ hist.ops + SumFn(hist.batches, Sessions) < MaxOps
                /\ BatchStart(s, selected_server, FormDict(quantity), selected_date)

\* render_daily_sales with "Submit Daily Sales" clicked: the page reads the
\* servers and the menu, stops with a warning if either is empty, builds
\* sales_dict from the number inputs, and calls process_daily_sales only if
\* a server, a non-empty sales_dict and a date are there
SubmitDailySales(s, selected_server, quantity, selected_date) ==
    LET servers == {w \in workers : w.role = "server"}
        sales_dict == FormDict(quantity)
    IN  /\ sess[s].pc = "idle"
        /\ IF servers = {}
           THEN /\ out' = [op |-> "submit", refused |-> TRUE, message |-> "No servers found"]
                /\ UNCHANGED <<storeVars, cache, sess, hist>>
           ELSE IF menu_items = {}
           THEN /\ out' = [op |-> "submit", refused |-> TRUE,
                           message |-> "No menu items found"]
                /\ UNCHANGED <<storeVars, cache, sess, hist>>
           ELSE /\ selected_server \in Ids(servers)
                /\ IF sales_dict # <<>>
                   THEN /\ hist.ops + SumFn(hist.batches, Sessions) < MaxOps
                        /\ BatchStart(s, selected_server, sales_dict, selected_date)
                   ELSE /\ out' = [op |-> "submit", refused |-> TRUE,
                                   message |-> "Please select a server, a date, and enter at least one item quantity"]
                        /\ UNCHANGED <<storeVars, cache, sess, hist>>

\* the 60 seconds of st.cache_data(ttl=60) have passed for an entry
CacheExpire(m) ==
    /\ cache[m] # NoEntry
    /\ cache' = [cache EXCEPT ![m] = NoEntry]
    /\ UNCHANGED <<storeVars, sess, out, hist>>

\* ---------------------------------------------------------------- management pages
\* A click reruns the page: the page's reads and the button's store calls
\* are the steps of one request.

BatchesStarted == SumFn(hist.batches, Sessions)

Done(s) == [sess EXCEPT ![s] = IdleSess]
Op == [hist EXCEPT !.ops = @ + 1]

\* "Add Item" of the stock page
AddStockItem(tracking_type, current_quantity, cost_per_unit) ==
    /\ nextId.stock_items \in StockIds
    /\ stock_items' = stock_items \cup
           {[id |-> nextId.stock_items, tracking_type |-> tracking_type,
             current_quantity |-> current_quantity, cost_per_unit |-> cost_per_unit]}
    /\ nextId' = [nextId EXCEPT !.stock_items = @ + 1]
    /\ out' = [op |-> "add_stock", id |-> nextId.stock_items, refused |-> FALSE]
    /\ hist' = [Op EXCEPT !.qty0[nextId.stock_items] = current_quantity]
    /\ UNCHANGED <<menu_items, menu_item_recipe, workers, orders, order_items,
                   monthly_expenses, cache, sess>>

\* a slip: the item is deleted without looking for recipes that use it
DeleteStockNoCheck(s, id) ==
    /\ sess[s].pc = "idle"
    /\ HasRow(stock_items, id)
    /\ sess' = [sess EXCEPT ![s] = [IdleSess EXCEPT !.pc = "del_stock", !.target = id]]
    /\ hist' = Op
    /\ UNCHANGED <<storeVars, cache, out>>

\* "Delete This Item": the recipe links of the item are read; with any, the
\* request ends with the error, with none it goes on to the delete
DeleteStockCheck(s, id) ==
    LET recipe_links == {l \in menu_item_recipe : l.stock_item_id = id}
    IN  /\ sess[s].pc = "idle"
        /\ HasRow(stock_items, id)
        /\ IF recipe_links # {}
           THEN /\ out' = [op |-> "delete_stock", id |-> id, refused |-> TRUE]
                /\ UNCHANGED sess
           ELSE /\ sess' = [sess EXCEPT ![s] =
                               [IdleSess EXCEPT !.pc = "del_stock", !.target = id]]
                /\ UNCHANGED out
        /\ hist' = Op
        /\ UNCHANGED <<storeVars, cache>>

\* db.table('stock_items').delete().eq('id', item['id']).execute()
DeleteStockDelete(s) ==
    /\ sess[s].pc = "del_stock"
    /\ stock_items' = {x \in stock_items : x.id # sess[s].target}
    /\ out' = [op |-> "delete_stock", id |-> sess[s].target, refused |-> FALSE]
    /\ sess' = Done(s)
    /\ UNCHANGED <<menu_items, menu_item_recipe, workers, orders, order_items,
                   monthly_expenses, nextId, cache, hist>>

\* "Add to Stock" of a UNIT or MULTI-USE item: the page's read of stock_items
\* gives current_quantity, and new_quantity = current_quantity + amount_to_add
RestockRead(s, id, amount_to_add) ==
    /\ sess[s].pc = "idle"
    /\ HasRow(stock_items, id)
    /\ Row(stock_items, id).tracking_type \in {"UNIT", "MULTI-USE"}
    /\ sess' = [sess EXCEPT ![s] =
                   [IdleSess EXCEPT !.pc = "restock", !.target = id,
                        !.new_quantity = Row(stock_items, id).current_quantity
                                            + amount_to_add]]
    /\ hist' = [Op EXCEPT !.restocked[id] = @ + amount_to_add]
    /\ UNCHANGED <<storeVars, cache, out>>

\* db.table('stock_items').update({'current_quantity': new_quantity}).eq('id', ...)
RestockWrite(s) ==
    /\ sess[s].pc = "restock"
    /\ stock_items' = {IF x.id = sess[s].target
                       THEN [x EXCEPT !.current_quantity = sess[s].new_quantity]
                       ELSE x : x \in stock_items}
    /\ out' = [op |-> "restock", id |-> sess[s].target, refused |-> FALSE]
    /\ sess' = Done(s)
    /\ UNCHANGED <<menu_items, menu_item_recipe, workers, orders, order_items,
                   monthly_expenses, nextId, cache, hist>>

\* "Mark as RESTOCKED" of a MANUAL item: the quantity is set to 1
RestockManual(id) ==
    /\ HasRow(stock_items, id)
    /\ Row(stock_items, id).tracking_type = "MANUAL"
    /\ stock_items' = {IF x.id = id THEN [x EXCEPT !.current_quantity = 1] ELSE x :
                          x \in stock_items}
    /\ out' = [op |-> "restock", id |-> id, refused |-> FALSE]
    /\ hist' = Op
    /\ UNCHANGED <<menu_items, menu_item_recipe, workers, orders, order_items,
                   monthly_expenses, nextId, cache, sess>>

\* "Add Menu Item" (submitted and name and sale_price > 0)
AddMenuItem(sale_price) ==
    /\ sale_price > 0
    /\ nextId.menu_items \in MenuIds
    /\ menu_items' = menu_items \cup {[id |-> nextId.menu_items, sale_price |-> sale_price]}
    /\ nextId' = [nextId EXCEPT !.menu_items = @ + 1]
    /\ out' = [op |-> "add_menu", id |-> nextId.menu_items, refused |-> FALSE]
    /\ hist' = Op
    /\ UNCHANGED <<stock_items, menu_item_recipe, workers, orders, order_items,
                   monthly_expenses, cache, sess>>

\* "Delete This Menu Item", first store call: the item's recipe links go
DeleteMenuLinks(s, id) ==
    /\ sess[s].pc = "idle"
    /\ HasRow(menu_items, id)
    /\ menu_item_recipe' = {l \in menu_item_recipe : l.menu_item_id # id}
    /\ sess' = [sess EXCEPT ![s] = [IdleSess EXCEPT !.pc = "del_menu", !.target = id]]
    /\ hist' = Op
    /\ UNCHANGED <<stock_items, menu_items, workers, orders, order_items,
                   monthly_expenses, nextId, cache, out>>

\* "Delete This Menu Item", second store call: the item itself goes
DeleteMenuItem(s) ==
    /\ sess[s].pc = "del_menu"
    /\ menu_items' = {m \in menu_items : m.id # sess[s].target}
    /\ out' = [op |-> "delete_menu", id |-> sess[s].target, refused |-> FALSE]
    /\ sess' = Done(s)
    /\ UNCHANGED <<stock_items, menu_item_recipe, workers, orders, order_items,
                   monthly_expenses, nextId, cache, hist>>

\* a slip: adding an ingredient also re-prices the item's past order items
AddRecipeLinkRecost(menu_item_id, stock_item_id, quantity_used) ==
    LET link == [id |-> nextId.menu_item_recipe, menu_item_id |-> menu_item_id,
                 stock_item_id |-> stock_item_id, quantity_used |-> quantity_used]
    IN  /\ HasRow(menu_items, menu_item_id) /\ HasRow(stock_items, stock_item_id)
        /\ quantity_used > 0
        /\ nextId.menu_item_recipe <= MaxLinks
        /\ menu_item_recipe' = menu_item_recipe \cup {link}
        /\ order_items' =
               {IF x.menu_item_id = menu_item_id
                THEN [x EXCEPT !.cost_at_sale =
                         @ + quantity_used * Row(stock_items, stock_item_id).cost_per_unit]
                ELSE x : x \in order_items}
        /\ nextId' = [nextId EXCEPT !.menu_item_recipe = @ + 1]
        /\ out' = [op |-> "add_link", id |-> link.id, refused |-> FALSE]
        /\ hist' = Op
        /\ UNCHANGED <<stock_items, menu_items, workers, orders,
                       monthly_expenses, cache, sess>>

\* "Add Ingredient to Recipe" (menu_item and stock_item and quantity_used > 0)
AddRecipeLink(menu_item_id, stock_item_id, quantity_used) ==
    LET link == [id |-> nextId.menu_item_recipe, menu_item_id |-> menu_item_id,
                 stock_item_id |-> stock_item_id, quantity_used |-> quantity_used]
    IN  /\ HasRow(menu_items, menu_item_id) /\ HasRow(stock_items, stock_item_id)
        /\ quantity_used > 0
        /\ nextId.menu_item_recipe <= MaxLinks
        /\ menu_item_recipe' = menu_item_recipe \cup {link}
        /\ nextId' = [nextId EXCEPT !.menu_item_recipe = @ + 1]
        /\ out' = [op |-> "add_link", id |-> link.id, refused |-> FALSE]
        /\ hist' = Op
        /\ UNCHANGED <<stock_items, menu_items, workers, orders, order_items,
                       monthly_expenses, cache, sess>>

\* "Remove" next to an ingredient of the recipe shown
RemoveRecipeLink(id) ==
    /\ HasRow(menu_item_recipe, id)
    /\ menu_item_recipe' = {l \in menu_item_recipe : l.id # id}
    /\ out' = [op |-> "remove_link", id |-> id, refused |-> FALSE]
    /\ hist' = Op
    /\ UNCHANGED <<stock_items, menu_items, workers, orders, order_items,
                   monthly_expenses, nextId, cache, sess>>

\* "Add Worker" (submitted and name and role and salary >= 0)
AddWorker(role, salary) ==
    /\ salary >= 0
    /\ nextId.workers \in WorkerIds
    /\ workers' = workers \cup {[id |-> nextId.workers, role |-> role, salary |-> salary]}
    /\ nextId' = [nextId EXCEPT !.workers = @ + 1]
    /\ out' = [op |-> "add_worker", id |-> nextId.workers, refused |-> FALSE]
    /\ hist' = Op
    /\ UNCHANGED <<stock_items, menu_items, menu_item_recipe, orders, order_items,
                   monthly_expenses, cache, sess>>

\* "Delete Worker": the worker's orders are read; with any, the request ends
\* with the error, with none it goes on to the delete
DeleteWorkerCheck(s, id) ==
    LET linked == {o \in orders : o.server_id = id}
    IN  /\ sess[s].pc = "idle"
        /\ HasRow(workers, id)
        /\ IF linked # {}
           THEN /\ out' = [op |-> "delete_worker", id |-> id, refused |-> TRUE]
                /\ UNCHANGED sess
           ELSE /\ sess' = [sess EXCEPT ![s] =
                               [IdleSess EXCEPT !.pc = "del_worker", !.target = id]]
                /\ UNCHANGED out
        /\ hist' = Op
        /\ UNCHANGED <<storeVars, cache>>

\* db.table('workers').delete().eq('id', worker['id']).execute()
DeleteWorkerDelete(s) ==
    /\ sess[s].pc = "del_worker"
    /\ workers' = {w \in workers : w.id # sess[s].target}
    /\ out' = [op |-> "delete_worker", id |-> sess[s].target, refused |-> FALSE]
    /\ sess' = Done(s)
    /\ UNCHANGED <<stock_items, menu_items, menu_item_recipe, orders, order_items,
                   monthly_expenses, nextId, cache, hist>>

\* "Add Expense" (submitted and month and description and amount > 0): the
\* month is stored as the date picked, whatever its day
AddExpense(month, amount) ==
    /\ amount > 0
    /\ nextId.monthly_expenses <= MaxExpenses
    /\ monthly_expenses' = monthly_expenses \cup
           {[id |-> nextId.monthly_expenses, month |-> month, amount |-> amount]}
    /\ nextId' = [nextId EXCEPT !.monthly_expenses = @ + 1]
    /\ out' = [op |-> "add_expense", id |-> nextId.monthly_expenses, refused |-> FALSE]
    /\ hist' = Op
    /\ UNCHANGED <<stock_items, menu_items, menu_item_recipe, workers, orders,
                   order_items, cache, sess>>

\* "Delete Expense"
DeleteExpense(id) ==
    /\ HasRow(monthly_expenses, id)
    /\ monthly_expenses' = {e \in monthly_expenses : e.id # id}
    /\ out' = [op |-> "delete_expense", id |-> id, refused |-> FALSE]
    /\ hist' = Op
    /\ UNCHANGED <<stock_items, menu_items, menu_item_recipe, workers, orders,
                   order_items, nextId, cache, sess>>

\* the store's rule on order_items.order_id, as the handler's comment has it:
\* deleting an order deletes the order items that belong to it
CascadeOrderItems(deleted) == {x \in order_items : x.order_id \notin deleted}

\* a slip: the delete without its .eq('id', ...) filter
DeleteOrderAll(id) ==
    /\ HasRow(orders, id)
    /\ orders' = {}
    /\ order_items' = CascadeOrderItems(Ids(orders))
    /\ out' = [op |-> "delete_order", id |-> id, refused |-> FALSE]
    /\ hist' = Op
    /\ UNCHANGED <<stock_items, menu_items, menu_item_recipe, workers,
                   monthly_expenses, nextId, cache, sess>>

\* "Delete This Entire Order": db.table('orders').delete().eq('id', order['id'])
DeleteOrder(id) ==
    /\ HasRow(orders, id)
    /\ orders' = {o \in orders : o.id # id}
    /\ order_items' = CascadeOrderItems({id})
    /\ out' = [op |-> "delete_order", id |-> id, refused |-> FALSE]
    /\ hist' = Op
    /\ UNCHANGED <<stock_items, menu_items, menu_item_recipe, workers,
                   monthly_expenses, nextId, cache, sess>>

\* ---------------------------------------------------------------- Profit Aggregator

RECURSIVE SumSeq(_)
\* Python's sum() over a list
SumSeq(q) == IF q = <<>> THEN 0 ELSE Head(q) + SumSeq(Tail(q))

\* order_items.select('..., orders!inner(timestamp)')
\*     .gte('orders.timestamp', start).lte('orders.timestamp', end)
SalesData(start, end) ==
    SortById({x \in order_items :
                \E o \in orders : /\ o.id = x.order_id
                                  /\ LexLeq(start, o.timestamp)
                                  /\ LexLeq(o.timestamp, end)})

\* a slip: the query without its .lte('orders.timestamp', end)
MonthlyFiguresOpenEnd(selected_month_date) ==
    LET range == get_month_range(selected_month_date)
        sales_data == SortById({x \in order_items :
                                  \E o \in orders : /\ o.id = x.order_id
                                                    /\ LexLeq(range[1], o.timestamp)})
        total_revenue == SumSeq([k \in DOMAIN sales_data |->
                                   sales_data[k].price_at_sale * sales_data[k].quantity])
        total_cogs == SumSeq([k \in DOMAIN sales_data |->
                                sales_data[k].cost_at_sale * sales_data[k].quantity])
        salary_data == SortById(workers)
        total_salaries == SumSeq([k \in DOMAIN salary_data |-> salary_data[k].salary])
        expense_data == SortById({e \in monthly_expenses : e.month = range[3]})
        total_expenses == SumSeq([k \in DOMAIN expense_data |-> expense_data[k].amount])
    IN  [total_revenue |-> total_revenue, total_cogs |-> total_cogs,
         gross_profit |-> total_revenue - total_cogs,
         total_salaries |-> total_salaries, total_expenses |-> total_expenses,
         net_profit |-> (total_revenue - total_cogs) - (total_salaries + total_expenses)]

\* the figures of the monthly report of the month of selected_month_date
MonthlyFigures(selected_month_date) ==
    LET range == get_month_range(selected_month_date)
        sales_data == SalesData(range[1], range[2])
        total_revenue == SumSeq([k \in DOMAIN sales_data |->
                                   sales_data[k].price_at_sale * sales_data[k].quantity])
        total_cogs == SumSeq([k \in DOMAIN sales_data |->
                                sales_data[k].cost_at_sale * sales_data[k].quantity])
        gross_profit == total_revenue - total_cogs
        salary_data == SortById(workers)
        total_salaries == SumSeq([k \in DOMAIN salary_data |-> salary_data[k].salary])
        expense_data == SortById({e \in monthly_expenses : e.month = range[3]})
        total_expenses == SumSeq([k \in DOMAIN expense_data |-> expense_data[k].amount])
        total_costs_operating == total_salaries + total_expenses
    IN  [total_revenue |-> total_revenue, total_cogs |-> total_cogs,
         gross_profit |-> gross_profit,
         total_salaries |-> total_salaries, total_expenses |-> total_expenses,
         net_profit |-> gross_profit - total_costs_operating]

\* the "Monthly" report of the Reports page for the month picked
MonthlyReport(selected_month_date) ==
    /\ out' = [op |-> "report", page |-> "reports", date |-> selected_month_date,
               figures |-> MonthlyFigures(selected_month_date)]
    /\ UNCHANGED <<storeVars, cache, sess, hist>>

\* the Monthly Dashboard: the same report for the month of date.today()
MonthlyDashboard(today) ==
    /\ out' = [op |-> "report", page |-> "dashboard", date |-> today,
               figures |-> MonthlyFigures(today)]
    /\ UNCHANGED <<storeVars, cache, sess, hist>>

\* ---------------------------------------------------------------- initial stores
\* Stores the management pages can have built before the run starts: two
\* stock items, two menu items, a server and a barista, and a recipe.

StockSeed(t) ==
    {[id |-> 1, tracking_type |-> t,
      current_quantity |-> IF t = "MANUAL" THEN 1 ELSE 10, cost_per_unit |-> 2],
     [id |-> 2, tracking_type |-> "MULTI-USE", current_quantity |-> 4, cost_per_unit |-> 1]}

MenuSeed == {[id |-> 1, sale_price |-> 6], [id |-> 2, sale_price |-> 3]}

WorkerSeed ==
    {[id |-> 1, role |-> "server", salary |-> 20],
     [id |-> 2, role |-> "barista", salary |-> 10]}

LinkSeed ==
    <<[id |-> 1, menu_item_id |-> 1, stock_item_id |-> 1, quantity_used |-> 2],
      [id |-> 2, menu_item_id |-> 1, stock_item_id |-> 2, quantity_used |-> 1],
      [id |-> 3, menu_item_id |-> 2, stock_item_id |-> 1, quantity_used |-> 1]>>

\* menu item 2 with an empty recipe, or with one ingredient
RecipeSeeds == {{LinkSeed[k] : k \in 1..n} : n \in {2, 3}}

InitStore(t, recipe) ==
    /\ stock_items = StockSeed(t)
    /\ menu_items = MenuSeed
    /\ menu_item_recipe = recipe
    /\ workers = WorkerSeed
    /\ orders = {}
    /\ order_items = {}
    /\ monthly_expenses = {}
    /\ nextId = [stock_items |-> 3, menu_items |-> 3, menu_item_recipe |-> Cardinality(recipe) + 1,
                 workers |-> 3, orders |-> 1, order_items |-> 1, monthly_expenses |-> 1]
    /\ cache = [m \in MenuIds |-> NoEntry]
    /\ sess = [s \in Sessions |-> IdleSess]
    /\ out = [op |-> "none"]
    /\ hist = [batches |-> [s \in Sessions |-> 0], failures |-> 0, ops |-> 0,
               sold |-> [m \in MenuIds |-> 0],
               requested |-> [x \in StockIds |-> 0],
                   restocked |-> [x \in StockIds |-> 0],
               qty0 |-> [x \in StockIds |->
                           IF HasRow(StockSeed(t), x)
                           THEN Row(StockSeed(t), x).current_quantity ELSE 0],
               born |-> {}]

Servers == {w \in workers : w.role = "server"}

\* ---------------------------------------------------------------- SpecSales
\* Batch submissions against a fixed menu, recipe and stock.

InitSales == \E t \in TrackingTypes, recipe \in RecipeSeeds : InitStore(t, recipe)

SalesStep(s) ==
    \/ OrderInsert(s)
    \/ CostLookup(s)
    \/ CostLookupFails(s)
    \/ ItemInsert(s)
    \/ RecipeFetch(s)
    \/ Decrement(s)
    \/ StoreCallFails(s)
    \/ BatchReturn(s)

NextSales ==
    \/ \E w \in Servers, d \in SalesDicts(FormEntries), date \in SalesDates :
            hist.batches["s1"] < MaxBatches /\ BatchStart("s1", w.id, d, date)
    \/ SalesStep("s1")
    \/ \E m \in MenuIds : CacheExpire(m)

SpecSales == InitSales /\ [][NextSales]_vars

\* ---------------------------------------------------------------- SpecConc
\* Two sessions submit batches at the same time; their store calls interleave.

InitConc == \E t \in {"UNIT", "MULTI-USE"} : InitStore(t, {LinkSeed[k] : k \in 1..3})


\* the entries of a submitted form: only the items with a quantity
ConcEntries == {e \in FormEntries : e.quantity > 0}

NextConc ==
    \/ \E s \in Sessions, w \in Servers, d \in SalesDicts(ConcEntries) :
            BatchesStarted < MaxConcurrent /\ BatchStart(s, w.id, d, <<2024, 2, 29>>)
    \/ \E s \in Sessions : OrderInsert(s)
    \/ \E s \in Sessions : CostLookup(s)
    \/ \E s \in Sessions : ItemInsert(s)
    \/ \E s \in Sessions : RecipeFetch(s)
    \/ \E s \in Sessions : Decrement(s)
    \/ \E s \in Sessions : BatchReturn(s)

SpecConc == InitConc /\ [][NextConc]_vars

\* ---------------------------------------------------------------- Spec
\* The management pages and the sales page used one request after another
\* by one session, on a store in which a first batch has already been
\* recorded: 3 units of menu item 1 at 6, sold by worker 1 on 2024-02-29.

FirstOrder == [id |-> 1, server_id |-> 1, timestamp |-> <<2024, 2, 29, 12, 0, 0, 0>>]

FirstOrderItem ==
    [id |-> 1, order_id |-> 1, menu_item_id |-> 1, quantity |-> 3,
     price_at_sale |-> 6, cost_at_sale |-> 5]

\* the stock after the first batch: 3 * 2 of item 1 and 3 * 1 of item 2 used
StockAfterFirst(t) ==
    {[x EXCEPT !.current_quantity = IF x.id = 1 THEN @ - 6 ELSE @ - 3] : x \in StockSeed(t)}

InitAfterFirstCached(t, recipe, cached) ==
        /\ stock_items = StockAfterFirst(t)
        /\ menu_items = MenuSeed
        /\ menu_item_recipe = recipe
        /\ workers = WorkerSeed
        /\ orders = {FirstOrder}
        /\ order_items = {FirstOrderItem}
        /\ monthly_expenses = {}
        /\ nextId = [stock_items |-> 3, menu_items |-> 3,
                     menu_item_recipe |-> Cardinality(recipe) + 1,
                     workers |-> 3, orders |-> 2, order_items |-> 2, monthly_expenses |-> 1]
        /\ cache = cached
        /\ sess = [s \in Sessions |-> IdleSess]
        /\ out = [op |-> "none"]
        /\ hist = [batches |-> [s \in Sessions |-> 0], failures |-> 0, ops |-> 0,
                   sold |-> [m \in MenuIds |-> 0],
                   requested |-> [x \in StockIds |-> 0],
                   restocked |-> [x \in StockIds |-> 0],
                   qty0 |-> [x \in StockIds |->
                               IF HasRow(StockAfterFirst(t), x)
                               THEN Row(StockAfterFirst(t), x).current_quantity ELSE 0],
                   born |-> {FirstOrderItem}]

\* the same store once the cache entries of the first batch have expired
InitAfterFirst(t, recipe) ==
    InitAfterFirstCached(t, recipe, [m \in MenuIds |-> NoEntry])

Init == \E t \in TrackingTypes, recipe \in RecipeSeeds : InitAfterFirst(t, recipe)

\* a session may start a request: it is running none, and the run has room
Request(s) == sess[s].pc = "idle" /\ hist.ops + BatchesStarted < MaxOps

ExpenseMonths == {<<2024, 2, 1>>, <<2024, 2, 15>>}

ManageStep(s) ==
    \/ \E t \in TrackingTypes : Request(s) /\ AddStockItem(t, 5, 3)
    \/ \E id \in StockIds : Request(s) /\ DeleteStockCheck(s, id)
    \/ DeleteStockDelete(s)
    \/ \E id \in StockIds : Request(s) /\ RestockRead(s, id, 2)
    \/ RestockWrite(s)
    \/ \E id \in StockIds : Request(s) /\ RestockManual(id)
    \/ Request(s) /\ AddMenuItem(4)
    \/ \E id \in MenuIds : Request(s) /\ DeleteMenuLinks(s, id)
    \/ DeleteMenuItem(s)
    \/ \E m \in MenuIds, x \in StockIds : Request(s) /\ AddRecipeLink(m, x, 1)
    \/ \E id \in 1..MaxLinks : Request(s) /\ RemoveRecipeLink(id)
    \/ \E role \in {"server", "barista"} : Request(s) /\ AddWorker(role, 10)
    \/ \E id \in WorkerIds : Request(s) /\ DeleteWorkerCheck(s, id)
    \/ DeleteWorkerDelete(s)
    \/ \E month \in ExpenseMonths : Request(s) /\ AddExpense(month, 100)
    \/ \E id \in 1..MaxExpenses : Request(s) /\ DeleteExpense(id)
    \/ \E id \in Ids(orders) : Request(s) /\ DeleteOrder(id)

Next ==
    \/ \E w \in Servers, d \in SalesDicts(ConcEntries) :
            Request("s1") /\ BatchStart("s1", w.id, d, <<2024, 3, 1>>)
    \/ OrderInsert("s1")
    \/ CostLookup("s1")
    \/ ItemInsert("s1")
    \/ RecipeFetch("s1")
    \/ Decrement("s1")
    \/ BatchReturn("s1")
    \/ \E m \in MenuIds : CacheExpire(m)
    \/ ManageStep("s1")

Spec == Init /\ [][Next]_vars

\* ---------------------------------------------------------------- SpecReport
\* Monthly reports between the requests that change what they read: batches
\* dated around the ends of February 2024, expenses, workers, deleted orders.

ReportSalesDates == {<<2023, 2, 28>>, <<2024, 1, 31>>, <<2024, 2, 1>>, <<2024, 3, 1>>}
ReportDates == {<<2024, 1, 31>>, <<2024, 2, 10>>, <<2023, 2, 1>>}

InitReport == InitAfterFirst("UNIT", {LinkSeed[k] : k \in 1..3})

NextReport ==
    \/ \E w \in Servers, d \in SalesDicts(ConcEntries), date \in ReportSalesDates :
            Request("s1") /\ BatchStart("s1", w.id, d, date)
    \/ OrderInsert("s1")
    \/ CostLookup("s1")
    \/ ItemInsert("s1")
    \/ RecipeFetch("s1")
    \/ Decrement("s1")
    \/ BatchReturn("s1")
    \/ \E month \in ExpenseMonths : Request("s1") /\ AddExpense(month, 100)
    \/ \E id \in 1..MaxExpenses : Request("s1") /\ DeleteExpense(id)
    \/ Request("s1") /\ AddWorker("barista", 10)
    \/ \E id \in Ids(orders) : Request("s1") /\ DeleteOrder(id)
    \/ \E d \in ReportDates : sess["s1"].pc = "idle" /\ MonthlyReport(d)
    \/ \E d \in ReportDates : sess["s1"].pc = "idle" /\ MonthlyDashboard(d)

SpecReport == InitReport /\ [][NextReport]_vars

\* ---------------------------------------------------------------- SpecCache
\* The recipe is edited and the next batch is submitted while the cost the
\* first batch computed for menu item 1 (2*2 + 1*1) is still in st.cache_data.

FirstCache == [m \in MenuIds |-> IF m = 1 THEN <<5>> ELSE NoEntry]

InitCache == \E recipe \in RecipeSeeds : InitAfterFirstCached("UNIT", recipe, FirstCache)

NextCache ==
    \/ \E w \in Servers, d \in SalesDicts(ConcEntries) :
            Request("s1") /\ BatchStart("s1", w.id, d, <<2024, 3, 1>>)
    \/ OrderInsert("s1")
    \/ CostLookup("s1")
    \/ ItemInsert("s1")
    \/ RecipeFetch("s1")
    \/ Decrement("s1")
    \/ BatchReturn("s1")
    \/ \E m \in MenuIds : CacheExpire(m)
    \/ \E m \in MenuIds, x \in StockIds : Request("s1") /\ AddRecipeLink(m, x, 1)
    \/ \E id \in 1..MaxLinks : Request("s1") /\ RemoveRecipeLink(id)

SpecCache == InitCache /\ [][NextCache]_vars

\* ---------------------------------------------------------------- SpecForm
\* The sales form submitted on stores that have lost their servers or their
\* menu, and with every combination of quantities.

InitForm == InitStore("UNIT", {LinkSeed[k] : k \in 1..3})

NextForm ==
    \/ \E w \in WorkerIds, q \in [MenuIds -> Quantities] :
            SubmitDailySales("s1", w, q, <<2024, 2, 29>>)
    \/ OrderInsert("s1")
    \/ CostLookup("s1")
    \/ ItemInsert("s1")
    \/ RecipeFetch("s1")
    \/ Decrement("s1")
    \/ BatchReturn("s1")
    \/ \E id \in WorkerIds : Request("s1") /\ DeleteWorkerCheck("s1", id)
    \/ DeleteWorkerDelete("s1")
    \/ \E id \in MenuIds : Request("s1") /\ DeleteMenuLinks("s1", id)
    \/ DeleteMenuItem("s1")
    \/ Request("s1") /\ AddWorker("server", 10)
    \/ Request("s1") /\ AddMenuItem(4)

SpecForm == InitForm /\ [][NextForm]_vars

\* ---------------------------------------------------------------- SpecPrice
\* process_daily_sales called with the prices its caller holds, which need
\* not be the sale_price the menu_items table holds for the item.

CallerEntries ==
    {[item_id |-> m.id, quantity |-> q, sale_price |-> m.sale_price + stale] :
        m \in menu_items, q \in {1, 3}, stale \in {0, 1}}

InitPrice == \E recipe \in RecipeSeeds : InitStore("UNIT", recipe)

NextPrice ==
    \/ \E w \in Servers, d \in SalesDicts(CallerEntries) :
            hist.batches["s1"] < MaxBatches /\ BatchStart("s1", w.id, d, <<2024, 2, 29>>)
    \/ OrderInsert("s1")
    \/ CostLookup("s1")
    \/ ItemInsert("s1")
    \/ RecipeFetch("s1")
    \/ Decrement("s1")
    \/ BatchReturn("s1")

SpecPrice == InitPrice /\ [][NextPrice]_vars

\* ---------------------------------------------------------------- SpecRace
\* Two sessions at once: the requests of the stock and menu pages that make
\* several store calls interleave with each other and with the batches of
\* session s1; the restocks are those of session s2.

InitRace == InitStore("UNIT", {LinkSeed[k] : k \in 1..3})

NextRace ==
    \/ \E w \in Servers, d \in SalesDicts(ConcEntries) :
            Request("s1") /\ BatchStart("s1", w.id, d, <<2024, 2, 29>>)
    \/ OrderInsert("s1")
    \/ CostLookup("s1")
    \/ ItemInsert("s1")
    \/ RecipeFetch("s1")
    \/ Decrement("s1")
    \/ BatchReturn("s1")
    \/ \E id \in StockIds : Request("s2") /\ RestockRead("s2", id, 2)
    \/ RestockWrite("s2")
    \/ \E s \in Sessions, id \in StockIds : Request(s) /\ DeleteStockCheck(s, id)
    \/ \E s \in Sessions : DeleteStockDelete(s)
    \/ \E s \in Sessions, id \in MenuIds : Request(s) /\ DeleteMenuLinks(s, id)
    \/ \E s \in Sessions : DeleteMenuItem(s)
    \/ \E s \in Sessions, m \in MenuIds, x \in StockIds : Request(s) /\ AddRecipeLink(m, x, 1)
    \/ \E s \in Sessions : Request(s) /\ AddStockItem("UNIT", 5, 3)

SpecRace == InitRace /\ [][NextRace]_vars

\* ---------------------------------------------------------------- SpecMonth
\* get_month_range on every date of a few years: a common year, a leap year,
\* and the century years 1900 (no leap year) and 2000 (a leap year).

Years == {1900, 2000, 2023, 2024}

Dates == {d \in Years \X (1..12) \X (1..31) : d[3] <= DaysInMonth(d[1], d[2])}

\* start_month_iso, end_month_iso, month_start_date = get_month_range(d)
MonthRangeCall(d) ==
    /\ out' = [op |-> "month_range", date |-> d, value |-> get_month_range(d)]
    /\ UNCHANGED <<storeVars, cache, sess, hist>>

InitMonth == InitStore("UNIT", {})

NextMonth == \E d \in Dates : MonthRangeCall(d)

SpecMonth == InitMonth /\ [][NextMonth]_vars

\* ================================================================ claims

Quiescent == \A s \in Sessions : sess[s].pc \in {"idle", "done"}

\* the entries of a sales_dict whose quantity is not 0
SoldEntries(sales) == {k \in DOMAIN sales : sales[k].quantity # 0}

\* C1: a call of process_daily_sales in which no store call failed has
\* created exactly one Order (server_id = server, timestamp = noon of the
\* sales date) whatever the number of items, exactly one OrderItem for each
\* entry whose quantity is not 0 and none for a quantity of 0, and returns
\* the sum of sale_price * quantity over the entries with a quantity.
C1_OneOrderPerBatch ==
    \A s \in Sessions :
        LET r == sess[s]
            sold == SoldEntries(r.sales)
        IN  (r.pc = "done" /\ ~r.failed) =>
                /\ Cardinality(r.made_orders) = 1
                /\ r.made_orders \subseteq orders
                /\ \A o \in r.made_orders :
                      /\ o.server_id = r.server_id
                      /\ o.timestamp = <<r.sales_date[1], r.sales_date[2], r.sales_date[3],
                                         12, 0, 0, 0>>
                /\ r.made_items \subseteq order_items
                /\ Cardinality(r.made_items) = Cardinality(sold)
                /\ \A k \in sold :
                      Cardinality({x \in r.made_items :
                                     /\ x.menu_item_id = r.sales[k].item_id
                                     /\ x.quantity = r.sales[k].quantity
                                     /\ x.order_id \in Ids(r.made_orders)}) = 1
                /\ r.ret = SumFn([k \in sold |->
                                    r.sales[k].sale_price * r.sales[k].quantity], sold)

\* C1's case: a batch of two entries, one with quantity 0, has returned
C1_Witness ==
    \E s \in Sessions :
        /\ sess[s].pc = "done" /\ ~sess[s].failed
        /\ Len(sess[s].sales) = 2
        /\ sess[s].sales[1].quantity = 3 /\ sess[s].sales[2].quantity = 0
        /\ Cardinality(sess[s].made_items) = 1
        /\ sess[s].ret = 18

\* what the recipes say the batches submitted so far consume of stock item x
RecipeConsumption(x) ==
    LET links == {l \in menu_item_recipe : l.stock_item_id = x}
    IN  SumFn([l \in links |-> l.quantity_used * hist.sold[l.menu_item_id]], links)

\* C2: once the submitted batches have run without a failed store call, every
\* stock item's current_quantity is what it was less the sum, over the sold
\* items and their recipe links to it, of quantity_used * quantity sold; an
\* item in no sold item's recipe is unchanged.
C2_StockDecreasedByRecipe ==
    (Quiescent /\ hist.failures = 0) =>
        \A x \in stock_items :
            x.current_quantity = hist.qty0[x.id] - RecipeConsumption(x.id)

\* C2's case: 3 units sold of an item that uses 2 of stock item 1 per unit
C2_Witness ==
    /\ Quiescent /\ hist.failures = 0
    /\ hist.sold[1] = 3 /\ hist.sold[2] = 0
    /\ \E x \in stock_items :
          x.id = 1 /\ x.tracking_type = "UNIT" /\ x.current_quantity = hist.qty0[1] - 6

\* C3: a value calculate_menu_item_cost computed (no cache entry used, the
\* store query answered) is the sum over the item's RecipeLinks of
\* quantity_used * the linked StockItem's cost_per_unit at call time, and 0
\* for an item without RecipeLinks.
C3_CostIsRecipeSum ==
    (out.op = "cost" /\ ~out.cached /\ ~out.failed) =>
        LET linked == {l \in out.links : HasRow(out.stock, l.stock_item_id)}
        IN  /\ out.value = SumFn([l \in linked |->
                                    l.quantity_used
                                        * Row(out.stock, l.stock_item_id).cost_per_unit],
                                 linked)
            /\ (out.links = {} => out.value = 0)

\* C3's case: a cost computed for an item with two ingredients (2*2 + 1*1)
C3_Witness ==
    /\ out.op = "cost" /\ ~out.cached /\ ~out.failed
    /\ Cardinality(out.links) = 2
    /\ out.value = 5

\* C9: a batch submission never changes the current_quantity of a MANUAL
\* stock item, even when it is an ingredient of a sold menu item.
C9_ManualNeverDecremented ==
    \A x \in stock_items :
        x.tracking_type = "MANUAL" => x.current_quantity = hist.qty0[x.id]

\* C10: under every interleaving of the store calls of concurrent batches,
\* each stock item's current_quantity is its initial quantity less the sum of
\* the amounts of all decrement calls made so far: no decrement is lost.
C10_NoLostDecrement ==
    \A x \in stock_items :
        x.current_quantity = hist.qty0[x.id] - hist.requested[x.id]

\* C10's case: two batches are both between their two decrements of a recipe
\* that uses stock item 1
C10_Witness ==
    /\ \A s \in Sessions : sess[s].pc = "decrement" /\ sess[s].j = 2
    /\ hist.requested[1] = 12

\* the last day of a month of the Gregorian calendar
LastDayOfMonth(y, m) ==
    CASE m \in {1, 3, 5, 7, 8, 10, 12} -> 31
      [] m \in {4, 6, 9, 11} -> 30
      [] OTHER -> IF (y % 4 = 0 /\ y % 100 # 0) \/ y % 400 = 0 THEN 29 ELSE 28

\* C8: for every date d, get_month_range(d) starts at 00:00:00 on day 1 of
\* d's month and year, ends at the last instant of the last calendar day of
\* that month and year (December ends on 31 December of the same year,
\* January stays in its own year), and gives day 1 of the month as the key.
C8_MonthRange ==
    out.op = "month_range" =>
        LET y == out.date[1]
            m == out.date[2]
        IN  /\ out.value[1] = <<y, m, 1, 0, 0, 0, 0>>
            /\ out.value[2] = <<y, m, LastDayOfMonth(y, m), 23, 59, 59, 999999>>
            /\ out.value[3] = <<y, m, 1>>

\* C8's case: a date in December
C8_Witness ==
    /\ out.op = "month_range"
    /\ out.date = <<2024, 12, 15>>
    /\ out.value[2] = <<2024, 12, 31, 23, 59, 59, 999999>>
    /\ out.value[3] = <<2024, 12, 1>>

\* C5: a step that deletes an Order removes that Order alone and exactly the
\* OrderItems whose order_id it is, and leaves every StockItem (so the stock
\* the order's batch used is not given back) and every other Order and
\* OrderItem as they were; and only such a step removes OrderItems.
C5_DeleteOrderCascadesNoRestock ==
    [][/\ (orders' # orders /\ orders' \subseteq orders) =>
            LET gone == orders \ orders'
            IN  /\ Cardinality(gone) = 1
                /\ \A o \in gone : out'.op = "delete_order" /\ out'.id = o.id
                /\ order_items' = {x \in order_items : x.order_id \notin Ids(gone)}
                /\ stock_items' = stock_items
       /\ (order_items \ order_items' # {}) => (orders' # orders /\ orders' \subseteq orders)
      ]_vars

\* C5's case: the first order was deleted with its item while a second order
\* and its item stay, and the stock is still short of what both batches used
C5_Witness ==
    /\ out.op = "delete_order" /\ out.id = 1
    /\ Ids(orders) = {2}
    /\ order_items # {}
    /\ \A x \in order_items : x.order_id = 2
    /\ \E x \in stock_items : x.id = 1 /\ x.current_quantity < hist.qty0[1]

\* C6: every existing OrderItem has the price_at_sale and cost_at_sale it
\* was created with, whatever has happened since (recipe links added or
\* removed, restocks, stock and menu items added or deleted, further
\* batches, other orders deleted).
C6_SnapshotsImmutable ==
    \A x \in order_items :
        \E b \in hist.born :
            /\ b.id = x.id
            /\ b.price_at_sale = x.price_at_sale
            /\ b.cost_at_sale = x.cost_at_sale

\* C6's case: an order item whose menu item's recipe cost is no longer the
\* cost it was sold at
C6_Witness ==
    \E x \in order_items :
        /\ x \in hist.born
        /\ HasRow(menu_items, x.menu_item_id)
        /\ compute_cost(x.menu_item_id) # x.cost_at_sale
        /\ out.op \in {"add_link", "remove_link", "delete_stock"}

StockReferenced(id) == \E l \in menu_item_recipe : l.stock_item_id = id
WorkerReferenced(id) == \E o \in orders : o.server_id = id

\* C7: a delete request for a StockItem some RecipeLink references, or for a
\* Worker some Order references, ends with the error and changes no table;
\* a StockItem or Worker row goes only in a request whose read of the
\* references was empty.
C7_ReferencedDeleteRefused ==
    [][/\ \A s \in Sessions, id \in StockIds :
            (DeleteStockCheck(s, id) /\ StockReferenced(id)) =>
                /\ UNCHANGED storeVars
                /\ out'.op = "delete_stock" /\ out'.id = id /\ out'.refused
                /\ sess'[s].pc = "idle"
       /\ \A s \in Sessions, id \in WorkerIds :
            (DeleteWorkerCheck(s, id) /\ WorkerReferenced(id)) =>
                /\ UNCHANGED storeVars
                /\ out'.op = "delete_worker" /\ out'.id = id /\ out'.refused
                /\ sess'[s].pc = "idle"
       /\ \A x \in stock_items :
            (~HasRow(stock_items', x.id)) =>
                \E s \in Sessions : sess[s].pc = "del_stock" /\ sess[s].target = x.id
       /\ \A w \in workers :
            (~HasRow(workers', w.id)) =>
                \E s \in Sessions : sess[s].pc = "del_worker" /\ sess[s].target = w.id
      ]_vars

\* C7's case: the delete of a stock item that a recipe uses was refused
C7_Witness ==
    /\ out.op = "delete_stock" /\ out.refused
    /\ HasRow(stock_items, out.id)
    /\ StockReferenced(out.id)

\* C4: a monthly report for month M gives revenue = sum of price_at_sale *
\* quantity and COGS = sum of cost_at_sale * quantity over exactly the
\* OrderItems whose Order's timestamp lies in M, gross profit = revenue -
\* COGS, and net profit = gross profit - the salaries of all Workers in the
\* store - the amounts of the MonthlyExpenses whose month is day 1 of M.
C4_MonthlyReport ==
    [][(\E d \in ReportDates : MonthlyReport(d) \/ MonthlyDashboard(d)) =>
          LET y == out'.date[1]
              m == out'.date[2]
              sold == {x \in order_items :
                          \E o \in orders : /\ o.id = x.order_id
                                            /\ o.timestamp[1] = y
                                            /\ o.timestamp[2] = m}
              revenue == SumFn([x \in sold |-> x.price_at_sale * x.quantity], sold)
              cogs == SumFn([x \in sold |-> x.cost_at_sale * x.quantity], sold)
              salaries == SumFn([w \in workers |-> w.salary], workers)
              keyed == {e \in monthly_expenses : e.month = <<y, m, 1>>}
              expenses == SumFn([e \in keyed |-> e.amount], keyed)
              f == out'.figures
          IN  /\ f.total_revenue = revenue
              /\ f.total_cogs = cogs
              /\ f.gross_profit = revenue - cogs
              /\ f.net_profit = revenue - cogs - salaries - expenses
      ]_vars

\* C4's case: the report of February 2024 with an order on 29 February, an
\* order outside the month and an expense keyed 2024-02-01: 18 - 15 - 30 - 100
C4_Witness ==
    /\ out.op = "report" /\ out.date = <<2024, 2, 10>>
    /\ \E o \in orders : o.timestamp[2] # 2 /\ \E x \in order_items : x.order_id = o.id
    /\ \E e \in monthly_expenses : e.month = <<2024, 2, 1>>
    /\ out.figures.total_revenue = 18
    /\ out.figures.total_cogs = 15
    /\ out.figures.net_profit = -127

\* C11: every cost the Cost Calculator hands to a batch, cached or not, is
\* the cost of the item's recipe as the store holds it when the batch asks:
\* a batch submitted after a recipe link (or an ingredient's cost_per_unit)
\* changed never records a cost cached while pricing an earlier batch.
C11_NoStaleCost ==
    (out.op = "cost" /\ ~out.failed) =>
        LET linked == {l \in out.links : HasRow(out.stock, l.stock_item_id)}
        IN  out.value = SumFn([l \in linked |->
                                 l.quantity_used
                                     * Row(out.stock, l.stock_item_id).cost_per_unit],
                              linked)

\* C12: once a store call of a batch has failed (the order insert, a cost
\* lookup, an order-item insert, a recipe fetch or a decrement), the batch
\* makes no further store call: it is at its return, and returns 0.
C12_FailureEndsBatch ==
    \A s \in Sessions :
        sess[s].failed => (sess[s].pc = "done" /\ sess[s].ret = 0)

\* C13: when a batch has returned 0 because a store call failed, the Order
\* and the OrderItems its completed steps inserted are still in the store and
\* every decrement it applied still shows in the stock quantities.
C13_PartialWritesStay ==
    \A s \in Sessions :
        (sess[s].pc = "done" /\ sess[s].failed /\ sess[s].ret = 0) =>
            /\ sess[s].made_orders \subseteq orders
            /\ sess[s].made_items \subseteq order_items
            /\ \A x \in stock_items :
                  x.current_quantity = hist.qty0[x.id] - hist.requested[x.id]

\* C13's case: the decrement for the second ingredient of an item failed
\* after the order, the order item and the first decrement were written
C13_Witness ==
    \E s \in Sessions :
        /\ sess[s].pc = "done" /\ sess[s].failed /\ sess[s].ret = 0
        /\ sess[s].j = 2 /\ Len(sess[s].recipe) = 2
        /\ sess[s].made_orders # {} /\ sess[s].made_items # {}
        /\ hist.requested[1] = 6 /\ hist.requested[2] = 0
        /\ \E x \in stock_items : x.id = 1 /\ x.current_quantity = hist.qty0[1] - 6

\* C14: a submission of the sales form made when there is no server, when
\* there is no menu item, or with no quantity above 0 is answered with a
\* message and starts no batch: the store is left as it was (no Order, no
\* OrderItem, no stock change) and process_daily_sales is not called.
C14_EmptySubmissionRefused ==
    [][\A w \in WorkerIds, q \in [MenuIds -> Quantities] :
          (/\ SubmitDailySales("s1", w, q, <<2024, 2, 29>>)
           /\ \/ ~ \E x \in workers : x.role = "server"
              \/ menu_items = {}
              \/ \A m \in menu_items : q[m.id] = 0)
          => /\ out'.op = "submit" /\ out'.refused /\ out'.message # ""
             /\ UNCHANGED storeVars
             /\ sess'["s1"].pc = "idle"
             /\ hist'.batches = hist.batches
      ]_vars

\* C14's case: a form with a server and a menu submitted with every quantity
\* at 0 has been refused, and the store holds no order
C14_Witness ==
    /\ out.op = "submit" /\ out.refused
    /\ out.message = "Please select a server, a date, and enter at least one item quantity"
    /\ Servers # {} /\ menu_items # {}
    /\ orders = {} /\ order_items = {}
    /\ \A x \in stock_items : x.current_quantity = hist.qty0[x.id]

\* C15: every OrderItem a batch has persisted carries the quantity and the
\* sale_price of its entry of the sales_dict the caller passed (whatever the
\* menu_items table holds for the item), and the OrderItem just persisted
\* carries as cost_at_sale the unit cost the Cost Calculator returned for the
\* item, not that cost times the quantity.
C15_ItemSnapshotsCallerValues ==
    \A s \in Sessions :
        LET r == sess[s]
        IN  /\ \A row \in r.made_items :
                  \E k \in 1..Len(r.sales) :
                      /\ k <= r.i
                      /\ r.sales[k].item_id = row.menu_item_id
                      /\ row.quantity = r.sales[k].quantity
                      /\ row.price_at_sale = r.sales[k].sale_price
            /\ r.pc \in {"fetch_recipe", "decrement"} =>
                  \E row \in r.made_items :
                      /\ row.menu_item_id = r.sales[r.i].item_id
                      /\ out.op = "cost" /\ out.menu_item_id = row.menu_item_id
                      /\ row.cost_at_sale = out.value

\* C15's case: 3 units of menu item 1 (6 on the menu, unit cost 5) persisted
\* at the caller's price of 7
C15_Witness ==
    \E s \in Sessions :
        /\ sess[s].pc = "fetch_recipe"
        /\ \E row \in sess[s].made_items :
              /\ row.menu_item_id = 1 /\ row.quantity = 3
              /\ row.price_at_sale = 7 /\ Row(menu_items, 1).sale_price = 6
              /\ row.cost_at_sale = 5

\* C16: the store never holds two Orders of the same server for the same
\* sales date: a second batch for a server and a date adds no second Order.
C16_OneOrderPerServerDay ==
    \A a, b \in orders :
        (/\ a.server_id = b.server_id
         /\ SubSeq(a.timestamp, 1, 3) = SubSeq(b.timestamp, 1, 3)) => a = b

\* C17: no stock item's current_quantity is ever below 0, whatever the
\* batches submitted have consumed.
C17_StockNeverNegative ==
    \A x \in stock_items : x.current_quantity >= 0

\* C18: whatever the interleaving of "delete stock item", "delete menu item"
\* and "add ingredient to recipe" run by different sessions, every RecipeLink
\* in the store references a StockItem and a MenuItem that are in the store.
C18_LinksReferenceRows ==
    \A l \in menu_item_recipe :
        HasRow(stock_items, l.stock_item_id) /\ HasRow(menu_items, l.menu_item_id)

\* C19: once the restocks and the batches that were started have all ended,
\* every UNIT or MULTI-USE stock item's current_quantity is its initial
\* quantity plus the amounts restocked less the amounts the batches'
\* decrements took: no restock has overwritten a decrement.
C19_RestockKeepsDecrements ==
    Quiescent =>
        \A x \in stock_items :
            x.tracking_type \in {"UNIT", "MULTI-USE"} =>
                x.current_quantity =
                    hist.qty0[x.id] + hist.restocked[x.id] - hist.requested[x.id]

====
